---- MODULE Spec2Model ----
(***************************************************************************)
(* Model of server/storage/s3.go: the S3-backed storage of the transfer    *)
(* service.  Strings are sequences of one-character strings, the bucket is *)
(* a function from object keys to objects, time is counted in hours.       *)
(***************************************************************************)
EXTENDS Integers, Sequences, FiniteSets, TLC

VARIABLES store, purgeDays, now, last, procs, access

vars == <<store, purgeDays, now, last, procs, access>>

----------------------------------------------------------------------------
(* Bounds of the model *)

MaxLen == 2
MaxObjects == 2
MaxTime == 1
MaxPurgeDays == 1

----------------------------------------------------------------------------
(* Strings *)

MetadataSuffix == <<".", "m", "e", "t", "a", "d", "a", "t", "a">>

Slash == <<"/">>

EmptyString == <<>>

HasSuffix(s, suffix) ==
    /\ Len(s) >= Len(suffix)
    /\ SubSeq(s, Len(s) - Len(suffix) + 1, Len(s)) = suffix

HasPrefix(s, prefix) ==
    /\ Len(s) >= Len(prefix)
    /\ SubSeq(s, 1, Len(prefix)) = prefix

(* strings.Split(s, "/"): the parts of s between the separators *)
RECURSIVE SplitFrom(_, _, _)
SplitFrom(s, i, part) ==
    IF i > Len(s) THEN <<part>>
    ELSE IF <<s[i]>> = Slash THEN <<part>> \o SplitFrom(s, i + 1, EmptyString)
    ELSE SplitFrom(s, i + 1, Append(part, s[i]))

Split(s) == SplitFrom(s, 1, EmptyString)

(* the inputs of the operations *)
Tokens == {<<"t">>}

(* the token of an upload the callers of this model do not address *)
OtherToken == <<"t", "t">>

FileNames == {<<"a">>, <<"b">>, <<"a">> \o MetadataSuffix,
              <<"a">> \o MetadataSuffix \o MetadataSuffix}

LookupNames == FileNames \cup {MetadataSuffix}

(* the bodies uploaded: the prefixes of one byte pattern, 0 1 0 1 ... *)
Bodies == {[i \in 1..n |-> (i + 1) % 2] : n \in 0..MaxLen}

NoRange == [set |-> FALSE, start |-> 0, end |-> 0, total |-> 0]

Ranges == {NoRange} \cup
          {r \in {[set |-> TRUE, start |-> a, end |-> b, total |-> 0] :
                      a \in 0..(MaxLen - 1), b \in 0..(MaxLen - 1)} :
              r.start <= r.end}

NoExpiry == [set |-> FALSE, at |-> 0]

NoReader == [open |-> FALSE, body |-> <<>>]

----------------------------------------------------------------------------
(* The object store behind the s3 client *)

ObjectKey(token, filename) == token \o Slash \o filename

KeysUnder(st, prefix) == {k \in DOMAIN st : HasPrefix(k, prefix)}

(* the orders in which a listing may enumerate a set of keys *)
Orderings(keys) ==
    {o \in [1..Cardinality(keys) -> keys] :
        \A i, j \in 1..Cardinality(keys) : o[i] = o[j] => i = j}

(* a listing that leaves the prefix out of its request *)
ListObjectsV2NoPrefix(st, prefix) == Orderings(DOMAIN st)

ListObjectsV2(st, prefix) == Orderings(KeysUnder(st, prefix))

(* GetObject: the whole object, or the requested byte range of it (cut at *)
(* the end of the object) together with the content range the backend     *)
(* reports                                                                *)
GetObject(st, key, rng) ==
    LET body == st[key].body
        stop == IF rng.end < Len(body) - 1 THEN rng.end ELSE Len(body) - 1
    IN  IF rng.set /\ rng.start <= stop
        THEN [body |-> SubSeq(body, rng.start + 1, stop + 1),
              contentLength |-> stop - rng.start + 1,
              contentRange |-> [set |-> TRUE, start |-> rng.start,
                                end |-> stop, total |-> Len(body)]]
        ELSE [body |-> body, contentLength |-> Len(body),
              contentRange |-> NoRange]

DeleteObject(st, key) == [k \in DOMAIN st \ {key} |-> st[k]]

PutObject(st, key, body, expire) ==
    [k \in DOMAIN st \cup {key} |->
        IF k = key THEN [body |-> body, expires |-> expire] ELSE st[k]]

----------------------------------------------------------------------------
(* Errors and the record of the backend calls an operation makes *)

Nil == "nil"

BackendUnavailable == "BackendUnavailable"

EmptyKeyRejected == "EmptyKeyRejected"

NoSuchKey == "NoSuchKey"

Call(api, key, rng, ok) == [api |-> api, key |-> key, rng |-> rng, ok |-> ok]

----------------------------------------------------------------------------
(* S3Storage *)

(* NewS3Storage: the retention, purgeDays days as a duration in hours *)
NewS3Storage(days) == days * 24

(* a prefix without its trailing separator *)
ListPrefixNoSlash(token) == token

ListPrefix(token) == token \o Slash

(* a scan that takes the first listed key as the data object *)
RECURSIVE ScanContentsFirstKey(_, _, _)
ScanContentsFirstKey(contents, metadataFlag, i) ==
    IF i > Len(contents)
    THEN [fileName |-> EmptyString, selectedKey |-> EmptyString]
    ELSE LET itemkey == contents[i]
         IN  IF metadataFlag = MetadataSuffix
                /\ HasSuffix(itemkey, MetadataSuffix)
             THEN [fileName |-> EmptyString, selectedKey |-> itemkey]
             ELSE IF metadataFlag # MetadataSuffix
             THEN LET parts == SplitFrom(itemkey, 1, EmptyString)
                  IN  [fileName |-> parts[Len(parts)], selectedKey |-> itemkey]
             ELSE ScanContentsFirstKey(contents, metadataFlag, i + 1)

(* the scan of getFileName over the listed keys: the first key whose *)
(* suffix matches the flag                                           *)
RECURSIVE ScanContents(_, _, _)
ScanContents(contents, metadataFlag, i) ==
    IF i > Len(contents)
    THEN [fileName |-> EmptyString, selectedKey |-> EmptyString]
    ELSE LET itemkey == contents[i]
         IN  IF metadataFlag = MetadataSuffix
                /\ HasSuffix(itemkey, MetadataSuffix)
             THEN [fileName |-> EmptyString, selectedKey |-> itemkey]
             ELSE IF metadataFlag # MetadataSuffix
                     /\ ~HasSuffix(itemkey, MetadataSuffix)
             THEN LET parts == Split(itemkey)
                  IN  [fileName |-> parts[Len(parts)], selectedKey |-> itemkey]
             ELSE ScanContents(contents, metadataFlag, i + 1)

(* getFileName: contents is the listing the backend answers with, listOk *)
(* tells whether the listing call succeeds                               *)
getFileName(contents, listOk, metadataFlag, token) ==
    LET call == Call("ListObjectsV2", ListPrefix(token), NoRange, listOk)
    IN  IF ~listOk
        THEN [fileName |-> EmptyString, selectedKey |-> EmptyString,
              err |-> BackendUnavailable, calls |-> <<call>>]
        ELSE LET r == ScanContents(contents, metadataFlag, 1)
             IN  [fileName |-> r.fileName, selectedKey |-> r.selectedKey,
                  err |-> Nil, calls |-> <<call>>]

(* the range Get puts into its GetObjectInput *)
GetRequestRange(rng) == NoRange

(* Range.SetContentRange: the range descriptor takes the values the *)
(* backend reports                                                  *)
SetContentRange(rng, contentRange) == contentRange

(* an expiry attached also when no retention is configured *)
PutExpiresAlways(retention, t0) ==
    IF retention >= 0 THEN [set |-> TRUE, at |-> t0 + retention] ELSE NoExpiry

(* the expiry Put attaches to the upload *)
PutExpires(retention, t0) ==
    IF retention > 0 THEN [set |-> TRUE, at |-> t0 + retention] ELSE NoExpiry

(* the result of Head; opened counts the response bodies it leaves open *)
HeadResult(st, token, filename, contents, listOk, getOk) ==
    LET r == getFileName(contents, listOk, filename, token)
        get == Call("GetObject", r.selectedKey, NoRange, getOk)
    IN  IF r.err # Nil
        THEN [err |-> r.err, contentLength |-> 0, calls |-> r.calls,
              opened |-> 0, selectedKey |-> r.selectedKey]
        ELSE IF r.selectedKey = EmptyString
        THEN [err |-> Nil, contentLength |-> 0, calls |-> r.calls,
              opened |-> 0, selectedKey |-> r.selectedKey]
        ELSE IF ~getOk
        THEN [err |-> BackendUnavailable, contentLength |-> 0,
              calls |-> Append(r.calls, get), opened |-> 0,
              selectedKey |-> r.selectedKey]
        ELSE [err |-> Nil,
              contentLength |-> GetObject(st, r.selectedKey, NoRange).contentLength,
              calls |-> Append(r.calls, get), opened |-> 1,
              selectedKey |-> r.selectedKey]

(* the result of Get *)
GetResult(st, token, filename, rng, contents, listOk, getOk) ==
    LET r == getFileName(contents, listOk, filename, token)
        req == GetRequestRange(rng)
        get == Call("GetObject", r.selectedKey, req, getOk)
    IN  IF r.err # Nil
        THEN [err |-> r.err, contentLength |-> 0, reader |-> NoReader,
              fName |-> r.fileName, rng |-> rng, calls |-> r.calls,
              selectedKey |-> r.selectedKey]
        ELSE IF r.selectedKey = EmptyString
        THEN [err |-> Nil, contentLength |-> 0, reader |-> NoReader,
              fName |-> r.fileName, rng |-> rng, calls |-> r.calls,
              selectedKey |-> r.selectedKey]
        ELSE IF ~getOk
        THEN [err |-> BackendUnavailable, contentLength |-> 0,
              reader |-> NoReader, fName |-> r.fileName, rng |-> rng,
              calls |-> Append(r.calls, get), selectedKey |-> r.selectedKey]
        ELSE LET response == GetObject(st, r.selectedKey, req)
             IN  [err |-> Nil, contentLength |-> response.contentLength,
                  reader |-> [open |-> TRUE, body |-> response.body],
                  fName |-> r.fileName,
                  rng |-> IF rng.set /\ response.contentRange.set
                          THEN SetContentRange(rng, response.contentRange)
                          ELSE rng,
                  calls |-> Append(r.calls, get),
                  selectedKey |-> r.selectedKey]

(* one resolve-and-delete of Delete: emptyOk tells whether the backend *)
(* accepts a DeleteObject of the empty key, which is backend-specific  *)
DeleteStep(st, token, metadataFlag, contents, listOk, delOk, emptyOk) ==
    LET r == getFileName(contents, listOk, metadataFlag, token)
        accepted == delOk /\ (r.selectedKey # EmptyString \/ emptyOk)
        del == Call("DeleteObject", r.selectedKey, NoRange, accepted)
    IN  IF r.err # Nil
        THEN [err |-> r.err, st |-> st, calls |-> r.calls]
        ELSE IF ~delOk
        THEN [err |-> BackendUnavailable, st |-> st,
              calls |-> Append(r.calls, del)]
        ELSE IF ~accepted
        THEN [err |-> EmptyKeyRejected, st |-> st,
              calls |-> Append(r.calls, del)]
        ELSE [err |-> Nil, st |-> DeleteObject(st, r.selectedKey),
              calls |-> Append(r.calls, del)]

(* a Delete that stops after the metadata step *)
DeleteResultMetadataOnly(metadata, data) == metadata

(* a Delete whose data step overwrites the error of the metadata step *)
DeleteResultOverwritten(metadata, data) ==
    [err |-> data.err, st |-> data.st, calls |-> metadata.calls \o data.calls]

(* Delete: the metadata step, then the data step unless the first failed *)
DeleteResult(metadata, data) ==
    IF metadata.err # Nil
    THEN metadata
    ELSE [err |-> data.err, st |-> data.st,
          calls |-> metadata.calls \o data.calls]

(* a Put whose key leaves the token out *)
PutResultNoToken(st, token, filename, body, retention, t0, uploadOk) ==
    LET upload == Call("Upload", filename, NoRange, uploadOk)
    IN  IF uploadOk
        THEN [err |-> Nil,
              st |-> PutObject(st, filename, body, PutExpires(retention, t0)),
              calls |-> <<upload>>]
        ELSE [err |-> BackendUnavailable, st |-> st, calls |-> <<upload>>]

(* the result of Put: the upload either stores the whole object or nothing *)
PutResult(st, token, filename, body, retention, t0, uploadOk) ==
    LET key == ObjectKey(token, filename)
        expire == PutExpires(retention, t0)
        upload == Call("Upload", key, NoRange, uploadOk)
    IN  IF uploadOk
        THEN [err |-> Nil, st |-> PutObject(st, key, body, expire),
              calls |-> <<upload>>]
        ELSE [err |-> BackendUnavailable, st |-> st, calls |-> <<upload>>]

----------------------------------------------------------------------------
(* The operations, one caller at a time: an operation runs, then the     *)
(* caller takes its results.  failAt is the backend call of the operation *)
(* that fails in transport (0: none; an operation makes no call after a   *)
(* failed one).  last is the operation that has just returned: its        *)
(* arguments, its results, the backend calls it made, the keys that were  *)
(* stored under its token when it started, and whether it directly        *)
(* follows a successful Put of the same token and file name (afterPut) or *)
(* a successful Delete of the same token (afterDelete); at is the time of *)
(* a Put.  Between operations last keeps, in prev, the successful Put or  *)
(* Delete that came before.                                               *)

NoPrev ==
    [op |-> "none", token |-> EmptyString, filename |-> EmptyString,
     body |-> <<>>]

NoLast ==
    [op |-> "none", token |-> EmptyString, filename |-> EmptyString,
     body |-> <<>>, rng |-> NoRange, err |-> Nil, contentLength |-> 0,
     reader |-> NoReader, fName |-> EmptyString, rngOut |-> NoRange,
     selectedKey |-> EmptyString, calls |-> <<>>, unreleased |-> 0,
     pre |-> {}, at |-> 0, afterPut |-> [ok |-> FALSE, body |-> <<>>],
     afterDelete |-> FALSE, prev |-> NoPrev]

Summary(l) ==
    IF l.op \in {"Put", "Delete"} /\ l.err = Nil
    THEN [op |-> l.op, token |-> l.token, filename |-> l.filename,
          body |-> l.body]
    ELSE NoPrev

Returned == last.op # "none"


NoProcs == [p \in {} |-> 0]

NoAccess == [proc |-> 0, api |-> "none", keys |-> {}]

EmptyStore == [k \in {} |-> 0]

(* the bucket holds nothing, or the upload of another token *)
OtherUpload ==
    [k \in {ObjectKey(OtherToken, <<"a">>)} |->
        [body |-> <<0>>, expires |-> NoExpiry]]

Init ==
    /\ store \in {EmptyStore, OtherUpload}
    /\ purgeDays = NewS3Storage(0)
    /\ now = 0
    /\ last = NoLast
    /\ procs = NoProcs
    /\ access = NoAccess

(* S3Storage.Head (the name Head is taken by Sequences) *)
S3Head(token, filename) ==
    /\ ~Returned
    /\ \E contents \in ListObjectsV2(store, ListPrefix(token)),
       failAt \in 0..2 :
        LET r == HeadResult(store, token, filename, contents,
                            failAt # 1, failAt # 2)
        IN  last' = [NoLast EXCEPT !.op = "Head", !.token = token,
                            !.filename = filename, !.err = r.err,
                            !.contentLength = r.contentLength,
                            !.selectedKey = r.selectedKey,
                            !.calls = r.calls,
                            !.unreleased = r.opened,
                            !.pre = KeysUnder(store, token \o Slash)]
    /\ UNCHANGED <<store, purgeDays, now, procs, access>>

Get(token, filename, rng) ==
    /\ ~Returned
    /\ \E contents \in ListObjectsV2(store, ListPrefix(token)),
       failAt \in 0..2 :
        LET r == GetResult(store, token, filename, rng, contents,
                           failAt # 1, failAt # 2)
            follows == /\ last.prev.op = "Put"
                       /\ last.prev.token = token
                       /\ last.prev.filename = filename
        IN  last' = [NoLast EXCEPT !.op = "Get", !.token = token,
                            !.filename = filename, !.rng = rng,
                            !.err = r.err,
                            !.contentLength = r.contentLength,
                            !.reader = r.reader, !.fName = r.fName,
                            !.rngOut = r.rng,
                            !.selectedKey = r.selectedKey,
                            !.calls = r.calls,
                            !.pre = KeysUnder(store, token \o Slash),
                            !.afterPut = [ok |-> follows,
                                          body |-> IF follows
                                                   THEN last.prev.body
                                                   ELSE <<>>]]
    /\ UNCHANGED <<store, purgeDays, now, procs, access>>

Put(token, filename, body) ==
    /\ ~Returned
    /\ \E uploadOk \in BOOLEAN :
        LET r == PutResult(store, token, filename, body, purgeDays, now,
                           uploadOk)
        IN  /\ Cardinality(KeysUnder(r.st, token \o Slash)) <= MaxObjects
            /\ store' = r.st
            /\ last' = [NoLast EXCEPT !.op = "Put", !.token = token,
                            !.filename = filename, !.body = body,
                            !.err = r.err, !.calls = r.calls, !.at = now,
                            !.pre = KeysUnder(store, token \o Slash)]
    /\ UNCHANGED <<purgeDays, now, procs, access>>

Delete(token) ==
    /\ ~Returned
    /\ \E c1 \in ListObjectsV2(store, ListPrefix(token)),
       failAt \in 0..4, emptyOk \in BOOLEAN :
        LET metadata == DeleteStep(store, token, MetadataSuffix, c1,
                                   failAt # 1, failAt # 2, emptyOk)
        IN  \E c2 \in ListObjectsV2(metadata.st, ListPrefix(token)) :
                LET data == DeleteStep(metadata.st, token, EmptyString, c2,
                                       failAt # 3, failAt # 4, emptyOk)
                    r == DeleteResult(metadata, data)
                IN  /\ store' = r.st
                    /\ last' = [NoLast EXCEPT !.op = "Delete",
                                    !.token = token, !.err = r.err,
                                    !.calls = r.calls,
                                    !.pre = KeysUnder(store, token \o Slash),
                                    !.afterDelete =
                                        /\ last.prev.op = "Delete"
                                        /\ last.prev.token = token]
    /\ UNCHANGED <<purgeDays, now, procs, access>>

(* Purge ignores its arguments *)
Purge(days) ==
    /\ ~Returned
    /\ last' = [NoLast EXCEPT !.op = "Purge"]
    /\ UNCHANGED <<store, purgeDays, now, procs, access>>

(* the caller takes the results of the operation that returned *)
Return ==
    /\ Returned
    /\ last' = [NoLast EXCEPT !.prev = Summary(last)]
    /\ UNCHANGED <<store, purgeDays, now, procs, access>>

Next ==
    \/ \E token \in Tokens, filename \in LookupNames : S3Head(token, filename)
    \/ \E token \in Tokens, filename \in LookupNames, rng \in Ranges :
           Get(token, filename, rng)
    \/ \E token \in Tokens, filename \in FileNames, body \in Bodies :
           Put(token, filename, body)
    \/ \E token \in Tokens : Delete(token)
    \/ \E days \in 0..MaxPurgeDays : Purge(days)
    \/ Return

Spec == Init /\ [][Next]_vars

----------------------------------------------------------------------------
(* Retention: the storage is constructed with any number of purge days, *)
(* and time passes between the operations                               *)

InitExpiry ==
    /\ store = EmptyStore
    /\ purgeDays \in {NewS3Storage(days) : days \in -1..MaxPurgeDays}
    /\ now = 0
    /\ last = NoLast
    /\ procs = NoProcs
    /\ access = NoAccess

Tick ==
    /\ now < MaxTime
    /\ now' = now + 1
    /\ UNCHANGED <<store, purgeDays, last, procs, access>>

NextExpiry ==
    \/ Tick
    \/ \E token \in Tokens, filename \in FileNames, body \in Bodies :
           Put(token, filename, body)
    \/ \E days \in 0..MaxPurgeDays : Purge(days)
    \/ Return

SpecExpiry == InitExpiry /\ [][NextExpiry]_vars

----------------------------------------------------------------------------
(* Concurrent callers: caller p writes a file under its own token and then *)
(* reads it back; every backend call is one step, and the steps of the two *)
(* callers interleave.  access is the latest backend call: who made it and *)
(* the keys it read or changed.                                            *)

Procs == {1, 2}

TokenOf(p) == IF p = 1 THEN <<"t">> ELSE OtherToken

Idle ==
    [pc |-> "idle", filename |-> EmptyString, body |-> <<>>,
     selectedKey |-> EmptyString, fName |-> EmptyString,
     reader |-> NoReader, contentLength |-> 0, err |-> Nil]

InitConc ==
    /\ store = EmptyStore
    /\ purgeDays = NewS3Storage(0)
    /\ now = 0
    /\ last = NoLast
    /\ procs = [p \in Procs |-> Idle]
    /\ access = NoAccess

(* the caller picks what it writes *)
Begin(p) ==
    /\ procs[p].pc = "idle"
    /\ \E filename \in FileNames, body \in Bodies :
          procs' = [procs EXCEPT ![p] = [Idle EXCEPT !.pc = "put",
                                            !.filename = filename,
                                            !.body = body]]
    /\ UNCHANGED <<store, purgeDays, now, last, access>>

(* Put: the upload *)
PutUpload(p) ==
    /\ procs[p].pc = "put"
    /\ \E uploadOk \in BOOLEAN :
          LET r == PutResult(store, TokenOf(p), procs[p].filename,
                             procs[p].body, purgeDays, now, uploadOk)
          IN  /\ store' = r.st
              /\ procs' = [procs EXCEPT ![p].err = r.err,
                              ![p].pc = IF r.err = Nil THEN "list"
                                        ELSE "done"]
              /\ access' = [proc |-> p, api |-> "Upload",
                            keys |-> {r.calls[1].key}]
    /\ UNCHANGED <<purgeDays, now, last>>

(* Get: getFileName, the listing and the scan of its answer *)
GetList(p) ==
    /\ procs[p].pc = "list"
    /\ \E contents \in ListObjectsV2(store, ListPrefix(TokenOf(p))),
          listOk \in BOOLEAN :
          LET r == getFileName(contents, listOk, procs[p].filename,
                               TokenOf(p))
          IN  /\ procs' = [procs EXCEPT ![p].err = r.err,
                              ![p].fName = r.fileName,
                              ![p].selectedKey = r.selectedKey,
                              ![p].pc = IF r.err = Nil
                                           /\ r.selectedKey # EmptyString
                                        THEN "get" ELSE "done"]
              /\ access' = [proc |-> p, api |-> "ListObjectsV2",
                            keys |-> IF listOk
                                     THEN {contents[i] : i \in DOMAIN contents}
                                     ELSE {}]
    /\ UNCHANGED <<store, purgeDays, now, last>>

(* Get: the GetObject call and the return *)
GetFetch(p) ==
    /\ procs[p].pc = "get"
    /\ \E getOk \in BOOLEAN :
          LET key == procs[p].selectedKey
              found == getOk /\ key \in DOMAIN store
              response == GetObject(store, key, GetRequestRange(NoRange))
          IN  /\ procs' = [procs EXCEPT
                              ![p].err = IF found THEN Nil
                                         ELSE IF getOk THEN NoSuchKey
                                         ELSE BackendUnavailable,
                              ![p].contentLength =
                                  IF found THEN response.contentLength ELSE 0,
                              ![p].reader =
                                  IF found
                                  THEN [open |-> TRUE, body |-> response.body]
                                  ELSE NoReader,
                              ![p].pc = "done"]
              /\ access' = [proc |-> p, api |-> "GetObject",
                            keys |-> IF found THEN {key} ELSE {}]
    /\ UNCHANGED <<store, purgeDays, now, last>>

NextConc ==
    \E p \in Procs :
        \/ Begin(p)
        \/ PutUpload(p)
        \/ GetList(p)
        \/ GetFetch(p)

SpecConc == InitConc /\ [][NextConc]_vars

----------------------------------------------------------------------------
(* Properties *)

IsLookup == last.op \in {"Head", "Get"}

ListingOk == Len(last.calls) >= 1 /\ last.calls[1].ok

AllCallsOk == \A i \in DOMAIN last.calls : last.calls[i].ok

DataKeys(keys) == {k \in keys : ~HasSuffix(k, MetadataSuffix)}

MetadataKeys(keys) == {k \in keys : HasSuffix(k, MetadataSuffix)}

(* the token holds exactly the data object of F and its metadata object *)
HoldsPair(filename) ==
    last.pre = {ObjectKey(last.token, filename),
                ObjectKey(last.token, filename \o MetadataSuffix)}

(* C1: a Head or a Get of a token under whose prefix nothing is stored,    *)
(* with a listing that succeeds, returns length 0, no reader, an empty     *)
(* file name and a nil error, and makes no GetObject call.                 *)
C1_NotFoundWhenEmpty ==
    (IsLookup /\ last.pre = {} /\ ListingOk) =>
        /\ last.err = Nil
        /\ last.contentLength = 0
        /\ last.reader = NoReader
        /\ last.fName = EmptyString
        /\ \A i \in DOMAIN last.calls : last.calls[i].api # "GetObject"

C1_Witness ==
    /\ last.op = "Get"
    /\ last.pre = {}
    /\ ListingOk
    /\ store = OtherUpload
    /\ last.err = Nil

(* C2 as claimed: whenever the token holds exactly T/F and T/F.metadata,   *)
(* whatever the listing order, resolving with the metadata flag selects    *)
(* T/F.metadata and resolving without it selects T/F with file name F.     *)
C2_Original ==
    \A filename \in FileNames :
        (IsLookup /\ ListingOk /\ HoldsPair(filename)) =>
            /\ last.filename = MetadataSuffix =>
                   last.selectedKey =
                       ObjectKey(last.token, filename \o MetadataSuffix)
            /\ last.filename # MetadataSuffix =>
                   /\ last.selectedKey = ObjectKey(last.token, filename)
                   /\ last.op = "Get" => last.fName = filename

(* C2 as amended: the same for every F that does not itself end in         *)
(* ".metadata".                                                            *)
C2_Resolve ==
    \A filename \in FileNames :
        (IsLookup /\ ListingOk /\ HoldsPair(filename)
            /\ ~HasSuffix(filename, MetadataSuffix)) =>
            /\ last.filename = MetadataSuffix =>
                   last.selectedKey =
                       ObjectKey(last.token, filename \o MetadataSuffix)
            /\ last.filename # MetadataSuffix =>
                   /\ last.selectedKey = ObjectKey(last.token, filename)
                   /\ last.op = "Get" => last.fName = filename

C2_Witness ==
    /\ last.op = "Get"
    /\ ListingOk
    /\ HoldsPair(<<"a">>)
    /\ last.filename = <<"a">>
    /\ last.selectedKey = ObjectKey(last.token, <<"a">>)
    /\ last.fName = <<"a">>

(* C3 as claimed: a Get(T, F, nil) that directly follows a successful      *)
(* Put(T, F, B), and whose backend calls succeed, returns a stream of      *)
(* exactly B and the content length len(B), from any store state.          *)
C3_Original ==
    (last.op = "Get" /\ last.afterPut.ok /\ ~last.rng.set /\ AllCallsOk) =>
        /\ last.err = Nil
        /\ last.reader.open
        /\ last.reader.body = last.afterPut.body
        /\ last.contentLength = Len(last.afterPut.body)

(* C3 as amended: the round trip holds when F does not end in ".metadata"  *)
(* and no key other than T/F is stored under T/ without that suffix.       *)
C3_RoundTrip ==
    (last.op = "Get" /\ last.afterPut.ok /\ ~last.rng.set /\ AllCallsOk
        /\ ~HasSuffix(last.filename, MetadataSuffix)
        /\ DataKeys(last.pre) \subseteq
               {ObjectKey(last.token, last.filename)}) =>
        /\ last.err = Nil
        /\ last.reader.open
        /\ last.reader.body = last.afterPut.body
        /\ last.contentLength = Len(last.afterPut.body)

C3_Witness ==
    /\ last.op = "Get"
    /\ last.afterPut.ok
    /\ ~last.rng.set
    /\ AllCallsOk
    /\ DataKeys(last.pre) = {ObjectKey(last.token, last.filename)}
    /\ MetadataKeys(last.pre) # {}
    /\ last.reader.open
    /\ last.reader.body = <<0, 1>>
    /\ last.contentLength = 2

(* C4: a successful Get with a range [a, b], 0 <= a <= b < N, on an object *)
(* of N bytes sends the range in its GetObject request, returns the        *)
(* b - a + 1 bytes from a to b, and leaves start a, end b, total N in rng. *)
C4_RangeRoundTrip ==
    (last.op = "Get" /\ last.rng.set /\ last.err = Nil /\ last.reader.open
        /\ last.rng.end < Len(store[last.selectedKey].body)) =>
        LET body == store[last.selectedKey].body
            a == last.rng.start
            b == last.rng.end
        IN  /\ last.calls[2].rng.set
            /\ last.calls[2].rng.start = a
            /\ last.calls[2].rng.end = b
            /\ last.contentLength = b - a + 1
            /\ last.reader.body = SubSeq(body, a + 1, b + 1)
            /\ last.rngOut = [set |-> TRUE, start |-> a, end |-> b,
                               total |-> Len(body)]

(* C5 as claimed: whenever Delete(T) returns nil, nothing remains stored   *)
(* under T/, and both of its DeleteObject calls succeeded.                 *)
C5_Original ==
    (last.op = "Delete" /\ last.err = Nil) =>
        /\ KeysUnder(store, last.token \o Slash) = {}
        /\ Len(last.calls) = 4
        /\ last.calls[2].api = "DeleteObject" /\ last.calls[2].ok
        /\ last.calls[4].api = "DeleteObject" /\ last.calls[4].ok

(* C5 as amended: the same when, before the call, at most one key with the *)
(* ".metadata" suffix and at most one key without it were stored under T/. *)
C5_DeleteBoth ==
    (last.op = "Delete" /\ last.err = Nil) =>
        /\ (Cardinality(MetadataKeys(last.pre)) <= 1
                /\ Cardinality(DataKeys(last.pre)) <= 1) =>
               KeysUnder(store, last.token \o Slash) = {}
        /\ Len(last.calls) = 4
        /\ last.calls[2].api = "DeleteObject" /\ last.calls[2].ok
        /\ last.calls[4].api = "DeleteObject" /\ last.calls[4].ok

C5_Witness ==
    /\ last.op = "Delete"
    /\ last.err = Nil
    /\ Cardinality(MetadataKeys(last.pre)) = 1
    /\ Cardinality(DataKeys(last.pre)) = 1
    /\ KeysUnder(store, last.token \o Slash) = {}
    /\ store = OtherUpload

(* C6: a Delete of a token under which nothing is stored (after a          *)
(* successful Delete, or a token that never had objects) returns nil,      *)
(* unless a backend call fails in transport.                               *)
C6_Idempotent ==
    (last.op = "Delete" /\ last.pre = {} /\ last.err # BackendUnavailable) =>
        last.err = Nil

(* the expiry of the object a successful Put has just stored *)
C7_PutExpiry ==
    (last.op = "Put" /\ last.err = Nil) =>
        LET object == store[ObjectKey(last.token, last.filename)]
        IN  /\ purgeDays > 0 =>
                   object.expires = [set |-> TRUE, at |-> last.at + purgeDays]
            /\ purgeDays = 0 => object.expires = NoExpiry

(* C7: with a retention D > 0 every successful Put at time t0 stores its   *)
(* object with the expiry t0 + D, with D = 0 it stores it without expiry,  *)
(* and no Purge changes the store or returns an error.                     *)
C7_Expiry ==
    /\ []C7_PutExpiry
    /\ [][last'.op = "Purge" => (store' = store /\ last'.err = Nil)]_vars

C7_Witness ==
    /\ last.op = "Put"
    /\ last.err = Nil
    /\ purgeDays = 24
    /\ last.at = 1
    /\ store[ObjectKey(last.token, last.filename)].expires.at = 25

(* C8: whenever a backend call of Head, Get, Delete or Put fails, the      *)
(* operation returns a non-nil error and no result: no length, no reader.  *)
C8_ErrorsPropagated ==
    (last.op \in {"Head", "Get", "Delete", "Put"} /\ ~AllCallsOk) =>
        /\ last.err # Nil
        /\ last.contentLength = 0
        /\ ~last.reader.open

C8_Witness ==
    /\ last.op = "Delete"
    /\ Len(last.calls) = 4
    /\ last.calls[2].ok
    /\ last.calls[2].key # EmptyString
    /\ ~last.calls[4].ok
    /\ last.err = BackendUnavailable

(* a caller has read back what it wrote *)
ReadBack(p) ==
    /\ procs[p].err = Nil
    /\ procs[p].reader.open
    /\ procs[p].reader.body = procs[p].body
    /\ procs[p].contentLength = Len(procs[p].body)

(* no backend call of a caller reads or changes a key of the other token *)
OwnKeysOnly ==
    \A k \in access.keys :
        \A q \in Procs \ {access.proc} : ~HasPrefix(k, TokenOf(q) \o Slash)

(* C9 as claimed: under every interleaving, each caller whose Put and Get  *)
(* meet no backend failure reads back exactly what it wrote, and no        *)
(* backend call touches a key of the other token.                          *)
C9_Original ==
    /\ \A p \in Procs :
           (procs[p].pc = "done" /\ procs[p].err = Nil) => ReadBack(p)
    /\ OwnKeysOnly

(* C9 as amended: the same for file names that do not end in ".metadata",  *)
(* on tokens that hold nothing beforehand.                                 *)
C9_NoInterference ==
    /\ \A p \in Procs :
           (procs[p].pc = "done" /\ procs[p].err = Nil
               /\ ~HasSuffix(procs[p].filename, MetadataSuffix)) =>
               ReadBack(p)
    /\ OwnKeysOnly

C9_Witness ==
    /\ \A p \in Procs : procs[p].pc = "done" /\ ReadBack(p)
    /\ procs[1].filename = procs[2].filename
    /\ procs[1].body = <<0, 1>>
    /\ procs[2].body = <<0>>
    /\ access.proc = 1

(* C10: no operation returns with a backend read stream that is neither    *)
(* released nor handed to the caller; in particular no Head does.          *)
C10_NoLeak == IsLookup => last.unreleased = 0

====
